---- MODULE Spec2Model ----
(***************************************************************************)
(* A model of ByteBuffer (src/src/ByteBuffer.ts): a virtual buffer of      *)
(* bytes held as an ordered sequence of chunks plus a head offset into the *)
(* first chunk.  Every method is an operator computed the way the code     *)
(* computes it (JavaScript 0-based indices, thrown errors as outcomes),    *)
(* and an action that applies it to the buffer.                            *)
(***************************************************************************)
EXTENDS Integers, Sequences, FiniteSets, TLC

VARIABLES chunks, head, supplied, nsupplied, pulled, last

vars == <<chunks, head, supplied, nsupplied, pulled, last>>

-----------------------------------------------------------------------------
(* Bounds of the model.                                                    *)

\* chunks handed to the constructor and to append over a buffer's lifetime
MaxChunks == 3
\* bytes handed to the constructor and to append over a buffer's lifetime
MaxBytes == 3
\* how far beyond the two ends of the buffer integer arguments range
Beyond == 1
\* longest needle searched for
MaxNeedle == 2

Byte == {65, 66}

Max(a, b) == IF a >= b THEN a ELSE b
Min(a, b) == IF a <= b THEN a ELSE b

\* an optional argument: <<>> is undefined, <<v>> is the value v
None == <<>>
Some(v) == <<v>>

\* all byte arrays of at most n bytes
BytesUpTo(n) == UNION {[1..k -> Byte] : k \in 0..n}

RECURSIVE ChunkSeqs(_, _)
\* all sequences of at most n chunks holding at most b bytes together
ChunkSeqs(n, b) ==
  IF n = 0 THEN {<<>>}
  ELSE {<<>>} \cup
       UNION {{<<c>> \o r : r \in ChunkSeqs(n - 1, b - Len(c))} : c \in BytesUpTo(b)}

-----------------------------------------------------------------------------
(* Outcomes of a call.                                                     *)

Return(v) == [kind |-> "return", value |-> v]
Throw(e, m) == [kind |-> "throw", error |-> e, message |-> m]

ErrNegative == "ByteBuffer#pull(): length cannot be less than 0."
ErrTooLong == "ByteBuffer#pull(): length cannot be greater than current length of buffer."

-----------------------------------------------------------------------------
(* Typed arrays (Uint8Array), 0-based as in the code.                      *)

\* new Uint8Array(n): n zero bytes
Zeros(n) == [i \in 1..n |-> 0]

\* a.at(i) for 0 <= i < a.length
At(a, i) == a[i + 1]

\* a.slice(begin, end) with 0 <= begin: the bytes at begin .. min(end, length) - 1
TASlice(a, begin, end) == SubSeq(a, begin + 1, Min(end, Len(a)))

\* target.set(source, offset), offset + source.length <= target.length
TASet(target, source, offset) ==
  [i \in 1..Len(target) |->
     IF offset < i /\ i <= offset + Len(source) THEN source[i - offset] ELSE target[i]]

\* a.indexOf(v, from) with from >= 0: the first index >= from holding v, or -1
TAIndexOf(a, v, from) ==
  LET hits == {i \in from..(Len(a) - 1) : At(a, i) = v}
  IN IF hits = {} THEN -1 ELSE CHOOSE i \in hits : \A j \in hits : i <= j

-----------------------------------------------------------------------------
(* ByteBuffer                                                              *)

RECURSIVE SumLen(_)
SumLen(cs) == IF cs = <<>> THEN 0 ELSE Len(Head(cs)) + SumLen(Tail(cs))

\* get length()
lengthNoHead(cs, h) == SumLen(cs)
length(cs, h) == SumLen(cs) - h

\* let remainingInCurrentChunk = currentChunk.length - pos.headPos
remainingIgnoringHeadPos(currentChunk, pos) == Len(currentChunk)
remainingInCurrentChunk(currentChunk, pos) == Len(currentChunk) - pos.headPos

Pos(c, h) == [chunkNumber |-> c, headPos |-> h]

RECURSIVE seekLoopStayingAtEnd(_, _, _, _, _)
seekLoopStayingAtEnd(cs, pos, numBytes, resultArray, offset) ==
  IF numBytes <= 0
  THEN [threw |-> None, pos |-> pos, resultArray |-> resultArray]
  ELSE IF pos.chunkNumber >= Len(cs)
  THEN [threw |-> Some("TypeError"), pos |-> pos, resultArray |-> resultArray]
  ELSE
    LET currentChunk == cs[pos.chunkNumber + 1]
        remaining == Len(currentChunk) - pos.headPos
    IN IF numBytes <= remaining
       THEN [threw |-> None,
             pos |-> Pos(pos.chunkNumber, pos.headPos + numBytes),
             resultArray |->
               IF resultArray = None THEN None
               ELSE Some(TASet(resultArray[1],
                               TASlice(currentChunk, pos.headPos, pos.headPos + numBytes),
                               offset))]
       ELSE seekLoopStayingAtEnd(cs, Pos(pos.chunkNumber + 1, 0), numBytes - remaining,
                     IF resultArray = None THEN None
                     ELSE Some(TASet(resultArray[1],
                                     TASlice(currentChunk, pos.headPos, Len(currentChunk)),
                                     offset)),
                     IF resultArray = None THEN offset ELSE offset + remaining)

RECURSIVE seekLoopNotAdvancingOffset(_, _, _, _, _)
seekLoopNotAdvancingOffset(cs, pos, numBytes, resultArray, offset) ==
  IF numBytes <= 0
  THEN [threw |-> None, pos |-> pos, resultArray |-> resultArray]
  ELSE IF pos.chunkNumber >= Len(cs)
  THEN [threw |-> Some("TypeError"), pos |-> pos, resultArray |-> resultArray]
  ELSE
    LET currentChunk == cs[pos.chunkNumber + 1]
        remaining == Len(currentChunk) - pos.headPos
    IN IF numBytes < remaining
       THEN [threw |-> None,
             pos |-> Pos(pos.chunkNumber, pos.headPos + numBytes),
             resultArray |->
               IF resultArray = None THEN None
               ELSE Some(TASet(resultArray[1],
                               TASlice(currentChunk, pos.headPos, pos.headPos + numBytes),
                               offset))]
       ELSE seekLoopNotAdvancingOffset(cs, Pos(pos.chunkNumber + 1, 0), numBytes - remaining,
                     IF resultArray = None THEN None
                     ELSE Some(TASet(resultArray[1],
                                     TASlice(currentChunk, pos.headPos, Len(currentChunk)),
                                     offset)),
                     offset)

RECURSIVE seekLoop(_, _, _, _, _)
\* the while loop of _seek; resultArray is None or Some(array).  Reading
\* .length of chunks[pos.chunkNumber] past the last chunk is a TypeError.
seekLoop(cs, pos, numBytes, resultArray, offset) ==
  IF numBytes <= 0
  THEN [threw |-> None, pos |-> pos, resultArray |-> resultArray]
  ELSE IF pos.chunkNumber >= Len(cs)
  THEN [threw |-> Some("TypeError"), pos |-> pos, resultArray |-> resultArray]
  ELSE
    LET currentChunk == cs[pos.chunkNumber + 1]
        remaining == remainingInCurrentChunk(currentChunk, pos)
    IN IF numBytes < remaining
       THEN [threw |-> None,
             pos |-> Pos(pos.chunkNumber, pos.headPos + numBytes),
             resultArray |->
               IF resultArray = None THEN None
               ELSE Some(TASet(resultArray[1],
                               TASlice(currentChunk, pos.headPos, pos.headPos + numBytes),
                               offset))]
       ELSE seekLoop(cs, Pos(pos.chunkNumber + 1, 0), numBytes - remaining,
                     IF resultArray = None THEN None
                     ELSE Some(TASet(resultArray[1],
                                     TASlice(currentChunk, pos.headPos, Len(currentChunk)),
                                     offset)),
                     IF resultArray = None THEN offset ELSE offset + remaining)

\* _seek(pos, numBytes, resultArray?)
_seek(cs, pos, numBytes, resultArray) == seekLoop(cs, pos, numBytes, resultArray, 0)

\* while (pos.chunkNumber > 0) { this.chunks.shift(); pos.chunkNumber-- }
keepChunks(cs, chunkNumber) == cs
shiftOneFewer(cs, chunkNumber) == SubSeq(cs, Max(chunkNumber, 1), Len(cs))
shiftOneMore(cs, chunkNumber) == SubSeq(cs, chunkNumber + 2, Len(cs))
shiftChunks(cs, chunkNumber) == SubSeq(cs, chunkNumber + 1, Len(cs))

\* the outcome of a method: the buffer it leaves and what it returns or throws
Outcome(cs, h, r) == [chunks |-> cs, head |-> h, result |-> r]

\* append(...chunks)
appendReversed(cs, h, more) ==
  Outcome(cs \o [i \in 1..Len(more) |-> more[Len(more) + 1 - i]], h, Return(None))
append(cs, h, more) == Outcome(cs \o more, h, Return(None))

\* pull(x)
pullAddingHead(cs, h, x) ==
  IF x < 0 THEN Outcome(cs, h, Throw("Error", ErrNegative))
  ELSE IF x > length(cs, h) THEN Outcome(cs, h, Throw("Error", ErrTooLong))
  ELSE
    LET s == _seek(cs, Pos(0, h), x, Some(Zeros(x)))
    IN IF s.threw # None THEN Outcome(cs, h, Throw(s.threw[1], ""))
       ELSE Outcome(shiftChunks(cs, s.pos.chunkNumber), h + s.pos.headPos,
                    Return(s.resultArray[1]))
pull(cs, h, x) ==
  IF x < 0 THEN Outcome(cs, h, Throw("Error", ErrNegative))
  ELSE IF x > length(cs, h) THEN Outcome(cs, h, Throw("Error", ErrTooLong))
  ELSE
    LET s == _seek(cs, Pos(0, h), x, Some(Zeros(x)))
    IN IF s.threw # None THEN Outcome(cs, h, Throw(s.threw[1], ""))
       ELSE Outcome(shiftChunks(cs, s.pos.chunkNumber), s.pos.headPos,
                    Return(s.resultArray[1]))

\* Math.max(v + this.length, 0): a negative index counts from the end
unclampedFromEnd(v, len) == v + len
fromEnd(v, len) == Max(v + len, 0)

\* slice: the defaults and clamping of start and end
sliceArgs(len, start, end) ==
  LET start1 == IF start = None THEN 0 ELSE start[1]
      end1 == IF end = None THEN len ELSE IF end[1] > len THEN len ELSE end[1]
  IN [start |-> IF start1 < 0 THEN fromEnd(start1, len) ELSE start1,
      end |-> IF end1 < 0 THEN fromEnd(end1, len) ELSE end1]

\* slice: seek to start, allocate end - start bytes, seek on while copying
sliceCopyFromChunkStart(cs, h, start, end) ==
  LET s1 == _seek(cs, Pos(0, 0), start, None)
  IN IF s1.threw # None THEN Throw(s1.threw[1], "")
     ELSE IF end - start < 0 THEN Throw("RangeError", "")
     ELSE LET s2 == _seek(cs, s1.pos, end - start, Some(Zeros(end - start)))
          IN IF s2.threw # None THEN Throw(s2.threw[1], "")
             ELSE Return(s2.resultArray[1])
sliceCopy(cs, h, start, end) ==
  LET s1 == _seek(cs, Pos(0, h), start, None)
  IN IF s1.threw # None THEN Throw(s1.threw[1], "")
     \* new Uint8Array(n) with n < 0 is a RangeError
     ELSE IF end - start < 0 THEN Throw("RangeError", "")
     ELSE LET s2 == _seek(cs, s1.pos, end - start, Some(Zeros(end - start)))
          IN IF s2.threw # None THEN Throw(s2.threw[1], "")
             ELSE Return(s2.resultArray[1])

\* slice(start?, end?)
sliceConsuming(cs, h, start, end) ==
  LET a == sliceArgs(length(cs, h), start, end)
      r == sliceCopy(cs, h, a.start, a.end)
  IN Outcome(cs, IF r.kind = "return" THEN h + Len(r.value) ELSE h, r)
slice(cs, h, start, end) ==
  LET a == sliceArgs(length(cs, h), start, end)
  IN Outcome(cs, h, sliceCopy(cs, h, a.start, a.end))

RECURSIVE skipLoop(_, _, _)
\* while (posByteInCompareChunk >= this.chunks[compareChunkNumber].length) ...
skipLoop(cs, compareChunkNumber, posByteInCompareChunk) ==
  IF posByteInCompareChunk >= Len(cs[compareChunkNumber + 1])
  THEN IF compareChunkNumber + 1 >= Len(cs)
       THEN [match |-> FALSE, chunkNumber |-> compareChunkNumber + 1,
             pos |-> posByteInCompareChunk - Len(cs[compareChunkNumber + 1])]
       ELSE skipLoop(cs, compareChunkNumber + 1,
                     posByteInCompareChunk - Len(cs[compareChunkNumber + 1]))
  ELSE [match |-> TRUE, chunkNumber |-> compareChunkNumber, pos |-> posByteInCompareChunk]

RECURSIVE compareLoop(_, _, _, _, _)
\* for (let i = 0; i < bytes.length; i++): compare byte by byte
compareLoop(cs, bytes, i, compareChunkNumber, posByteInCompareChunk) ==
  IF i >= Len(bytes) THEN TRUE
  ELSE LET k == skipLoop(cs, compareChunkNumber, posByteInCompareChunk)
       IN IF ~k.match THEN FALSE
          ELSE IF At(bytes, i) # At(cs[k.chunkNumber + 1], k.pos) THEN FALSE
          ELSE compareLoop(cs, bytes, i + 1, k.chunkNumber, k.pos + 1)

\* let match = true; if (bytes.length > 1) { ... }
compareBytes(cs, bytes, searchChunkNumber, posFoundInChunk) ==
  IF Len(bytes) > 1 THEN compareLoop(cs, bytes, 0, searchChunkNumber, posFoundInChunk)
  ELSE TRUE

\* Found: the bytes of the chunks before this one, less head, plus the offset
foundIndexFromChunkStart(cs, h, searchChunkNumber, posFoundInChunk) ==
  SumLen(SubSeq(cs, 1, searchChunkNumber)) + posFoundInChunk
foundIndex(cs, h, searchChunkNumber, posFoundInChunk) ==
  (-h) + SumLen(SubSeq(cs, 1, searchChunkNumber)) + posFoundInChunk

\* searchPositionInChunk = posFoundInChunk + 1: try again with more of the chunk
retryInNextChunk(searchChunkNumber, posFoundInChunk) == Pos(searchChunkNumber + 1, 0)
retryFrom(searchChunkNumber, posFoundInChunk) == Pos(searchChunkNumber, posFoundInChunk + 1)

RECURSIVE searchLoop(_, _, _, _, _)
\* while (true): find the first byte in the chunk, then compare.  Calling
\* .indexOf on chunks[searchChunkNumber] past the last chunk is a TypeError.
searchLoop(cs, h, bytes, searchChunkNumber, searchPositionInChunk) ==
  IF searchChunkNumber >= Len(cs) THEN Throw("TypeError", "")
  ELSE
    LET currentChunk == cs[searchChunkNumber + 1]
        posFoundInChunk == TAIndexOf(currentChunk, At(bytes, 0), searchPositionInChunk)
    IN IF posFoundInChunk = -1
       THEN IF searchChunkNumber + 1 < Len(cs)
            THEN searchLoop(cs, h, bytes, searchChunkNumber + 1, 0)
            ELSE Return(-1)
       ELSE IF ~compareBytes(cs, bytes, searchChunkNumber, posFoundInChunk)
       THEN LET r == retryFrom(searchChunkNumber, posFoundInChunk)
            IN searchLoop(cs, h, bytes, r.chunkNumber, r.headPos)
       ELSE Return(foundIndex(cs, h, searchChunkNumber, posFoundInChunk))

\* indexOf(bytes, position = 0)
indexOfEmptyAtPosition(cs, h, bytes, position) ==
  LET p == IF position = None THEN 0 ELSE position[1]
  IN IF Len(bytes) = 0 THEN Outcome(cs, h, Return(p))
     ELSE IF Len(bytes) > length(cs, h) THEN Outcome(cs, h, Return(-1))
     ELSE LET s == IF p > 0 THEN _seek(cs, Pos(0, h), p, None)
                   ELSE [threw |-> None, pos |-> Pos(0, h), resultArray |-> None]
          IN IF s.threw # None THEN Outcome(cs, h, Throw(s.threw[1], ""))
             ELSE Outcome(cs, h, searchLoop(cs, h, bytes, s.pos.chunkNumber, s.pos.headPos))
indexOf(cs, h, bytes, position) ==
  LET p == IF position = None THEN 0 ELSE position[1]
  IN IF Len(bytes) = 0 THEN Outcome(cs, h, Return(Min(p, length(cs, h))))
     ELSE IF Len(bytes) > length(cs, h) THEN Outcome(cs, h, Return(-1))
     ELSE LET s == IF p > 0 THEN _seek(cs, Pos(0, h), p, None)
                   ELSE [threw |-> None, pos |-> Pos(0, h), resultArray |-> None]
          IN IF s.threw # None THEN Outcome(cs, h, Throw(s.threw[1], ""))
             ELSE Outcome(cs, h, searchLoop(cs, h, bytes, s.pos.chunkNumber, s.pos.headPos))

-----------------------------------------------------------------------------
(* The buffer as a state machine.  supplied, nsupplied and pulled count    *)
(* the bytes and chunks handed in and the bytes pulled out so far; last    *)
(* records the latest call: the buffer it found and, for the calls that    *)
(* may change the buffer, its arguments and its outcome.  slice and        *)
(* indexOf are called with every argument in range; what they return is    *)
(* stated over all those arguments in each reachable buffer.              *)

Pre == [chunks |-> chunks, head |-> head]

\* new ByteBuffer(chunks?): no chunk, one chunk or an array of chunks
Init ==
  /\ chunks \in ChunkSeqs(MaxChunks, MaxBytes)
  /\ head = 0
  /\ supplied = SumLen(chunks)
  /\ nsupplied = Len(chunks)
  /\ pulled = 0
  /\ last = [op |-> "new", pre |-> [chunks |-> <<>>, head |-> 0],
             args |-> <<chunks>>, result |-> Return(None)]

CallAppend ==
  \E more \in ChunkSeqs(MaxChunks - nsupplied, MaxBytes - supplied) :
    LET o == append(chunks, head, more)
    IN /\ chunks' = o.chunks
       /\ head' = o.head
       /\ supplied' = supplied + SumLen(more)
       /\ nsupplied' = nsupplied + Len(more)
       /\ last' = [op |-> "append", pre |-> Pre, args |-> <<more>>, result |-> o.result]
       /\ UNCHANGED pulled

CallPull ==
  \E x \in (-Beyond)..(length(chunks, head) + Beyond) :
    LET o == pull(chunks, head, x)
    IN /\ chunks' = o.chunks
       /\ head' = o.head
       /\ pulled' = IF o.result.kind = "return" THEN pulled + x ELSE pulled
       /\ last' = [op |-> "pull", pre |-> Pre, args |-> <<x>>, result |-> o.result]
       /\ UNCHANGED <<supplied, nsupplied>>

\* an optional integer argument of a call on a buffer of len bytes
OptInts(len) == {None} \cup {Some(v) : v \in (-(len + Beyond))..(len + Beyond)}

CallSlice ==
  \E start \in OptInts(length(chunks, head)), end \in OptInts(length(chunks, head)) :
    LET o == slice(chunks, head, start, end)
    IN /\ chunks' = o.chunks
       /\ head' = o.head
       /\ last' = [op |-> "slice", pre |-> Pre]
       /\ UNCHANGED <<supplied, nsupplied, pulled>>

CallIndexOf ==
  \E bytes \in BytesUpTo(MaxNeedle), position \in OptInts(length(chunks, head)) :
    LET o == indexOf(chunks, head, bytes, position)
    IN /\ chunks' = o.chunks
       /\ head' = o.head
       /\ last' = [op |-> "indexOf", pre |-> Pre]
       /\ UNCHANGED <<supplied, nsupplied, pulled>>

\* the buffer as it grows and is consumed
Next == CallAppend \/ CallPull

Spec == Init /\ [][Next]_vars

\* The buffers to slice and to search: a buffer made of any chunks, of which
\* a pull has consumed nothing or a part of the first chunk.  (A pull that
\* ends in a later chunk leaves what construction from the chunks after it
\* and a pull inside the first of them leave, and append what construction
\* from the longer sequence leaves.)
InitQuery ==
  \E cs \in ChunkSeqs(MaxChunks, MaxBytes) :
    \E x \in 0..(IF cs = <<>> THEN 0 ELSE Max(Len(cs[1]) - 1, 0)) :
      LET o == pull(cs, 0, x)
      IN /\ chunks = o.chunks
         /\ head = o.head
         /\ supplied = SumLen(cs)
         /\ nsupplied = Len(cs)
         /\ pulled = x
         /\ last = [op |-> "pull", pre |-> [chunks |-> cs, head |-> 0],
                    args |-> <<x>>, result |-> o.result]

NextQuery == CallSlice \/ CallIndexOf

\* the buffers InitQuery starts from
QueryBuffers ==
  UNION {{[chunks |-> pull(cs, 0, x).chunks, head |-> pull(cs, 0, x).head] :
            x \in 0..(IF cs = <<>> THEN 0 ELSE Max(Len(cs[1]) - 1, 0))} :
         cs \in ChunkSeqs(MaxChunks, MaxBytes)}

\* every buffer that construction, append and pull reach is one of them
\* (an invariant of Spec)
ReachableBuffersAreQueried == Pre \in QueryBuffers

SpecQuery == InitQuery /\ [][NextQuery]_vars

-----------------------------------------------------------------------------
(* The logical content of a buffer: its unconsumed bytes in stream order.  *)

RECURSIVE Flatten(_)
Flatten(cs) == IF cs = <<>> THEN <<>> ELSE Head(cs) \o Flatten(Tail(cs))

Take(s, n) == SubSeq(s, 1, n)
Drop(s, n) == SubSeq(s, n + 1, Len(s))
\* the bytes at the logical indices a .. b - 1
Range(s, a, b) == SubSeq(s, a + 1, b)

Content(cs, h) == Drop(Flatten(cs), h)

B == Content(chunks, head)
L == Len(B)
PreB == Content(last.pre.chunks, last.pre.head)
PreL == Len(PreB)
Unchanged ==
  /\ chunks = last.pre.chunks
  /\ head = last.pre.head
  /\ length(chunks, head) = length(last.pre.chunks, last.pre.head)

\* the first logical index i >= p at which needle occurs in s, or -1
FirstOccurrence(s, needle, p) ==
  LET occ == {i \in p..(Len(s) - Len(needle)) : Range(s, i, i + Len(needle)) = needle}
  IN IF occ = {} THEN -1 ELSE CHOOSE i \in occ : \A j \in occ : i <= j

Needles == BytesUpTo(MaxNeedle)

-----------------------------------------------------------------------------
(* C1: pull(x) with 0 <= x <= length returns the first x bytes of the      *)
(* content and leaves the content without them; length drops by x.         *)
C1_PullReturnsPrefix ==
  (last.op = "pull" /\ 0 <= last.args[1] /\ last.args[1] <= PreL) =>
    /\ last.result = Return(Take(PreB, last.args[1]))
    /\ B = Drop(PreB, last.args[1])
    /\ length(chunks, head) = length(last.pre.chunks, last.pre.head) - last.args[1]

\* a pull that runs through two chunks and ends inside a third
C1_Witness ==
  /\ last.op = "pull" /\ last.result.kind = "return"
  /\ Len(last.pre.chunks) - Len(chunks) >= 2
  /\ head > 0

(* C2: length is the bytes supplied to the constructor and to append less  *)
(* the bytes pulled so far, and is never negative.                         *)
C2_LengthAdditivity ==
  /\ length(chunks, head) = supplied - pulled
  /\ length(chunks, head) >= 0

\* an append after a pull that stopped inside a chunk
C2_Witness ==
  /\ last.op = "append" /\ last.args[1] # <<>> /\ SumLen(last.args[1]) > 0
  /\ pulled > 0 /\ head > 0

(* C3: for 0 <= start <= end, slice(start, end) returns the content's      *)
(* bytes start .. min(end, length) - 1; with end omitted up to the end,    *)
(* with both omitted all of it.                                            *)
C3_SliceReturnsRange ==
  last.op = "slice" =>
    \A start \in OptInts(L), end \in OptInts(L) :
      LET s == IF start = None THEN 0 ELSE start[1]
          e == IF end = None THEN L ELSE end[1]
      IN (0 <= s /\ s <= e) =>
           slice(chunks, head, start, end).result = Return(Range(B, s, Min(e, L)))

(* C4: for a non-empty needle no longer than the buffer and 0 <= p <       *)
(* length, indexOf(needle, p) is the smallest index i >= p at which the    *)
(* needle occurs in the content, or -1.                                    *)
C4_IndexOfFindsFirst ==
  last.op = "indexOf" =>
    \A needle \in Needles, p \in 0..(L - 1) :
      (needle # <<>> /\ Len(needle) <= L) =>
        indexOf(chunks, head, needle, Some(p)).result
          = Return(FirstOccurrence(B, needle, p))

\* a candidate at 0 fails, the occurrence at 1 starts in the first chunk
\* and ends in a later one
C4_Witness ==
  /\ last.op = "indexOf" /\ head = 0 /\ Len(chunks) >= 2 /\ Len(chunks[1]) = 2
  /\ \E needle \in Needles :
       /\ Len(needle) = 2 /\ B[1] = needle[1]
       /\ indexOf(chunks, head, needle, Some(0)).result = Return(1)

(* C5: pull(x) with x < 0 and with x > length throw their errors and       *)
(* leave chunks, head and length as they were.                             *)
C5_PullRejects ==
  /\ (last.op = "pull" /\ last.args[1] < 0) =>
       last.result = Throw("Error", ErrNegative) /\ Unchanged
  /\ (last.op = "pull" /\ last.args[1] > PreL) =>
       last.result = Throw("Error", ErrTooLong) /\ Unchanged

\* a pull of more than is left, after a pull that stopped inside a chunk
C5_Witness ==
  /\ last.op = "pull" /\ last.args[1] > PreL
  /\ last.pre.head > 0 /\ head > 0

(* C6: slice and indexOf leave chunks and head as they found them, for all *)
(* arguments; pull(0) returns an empty array and does the same.            *)
C6_QueriesDoNotMutate ==
  /\ last.op \in {"slice", "indexOf"} => Unchanged
  /\ pull(chunks, head, 0) = Outcome(chunks, head, Return(<<>>))

\* a slice of a buffer of several chunks that has been pulled from
C6_Witness ==
  /\ last.op = "slice" /\ head > 0 /\ Len(chunks) >= 2 /\ L >= 2

\* start and end after defaulting and clamping, as slice is specified
EffectiveStart(start) ==
  IF start = None THEN 0 ELSE IF start[1] < 0 THEN Max(start[1] + L, 0) ELSE start[1]
EffectiveEnd(end) ==
  IF end = None THEN L
  ELSE IF end[1] < 0 THEN Max(end[1] + L, 0) ELSE Min(end[1], L)

(* C7: when start >= end after defaulting and clamping, slice returns an   *)
(* empty array and raises no error.                                        *)
C7_SliceEmptyWhenStartNotBeforeEnd ==
  last.op = "slice" =>
    \A start \in OptInts(L), end \in OptInts(L) :
      EffectiveStart(start) >= EffectiveEnd(end) =>
        slice(chunks, head, start, end).result = Return(<<>>)

(* C8: indexOf raises no error, whatever the needle and fromPosition: it   *)
(* returns an index or -1, and -1 for a non-empty needle when fromPosition *)
(* is at or past the end.                                                  *)
C8_IndexOfTotal ==
  last.op = "indexOf" =>
    \A needle \in Needles, position \in OptInts(L) :
      LET r == indexOf(chunks, head, needle, position).result
      IN /\ r.kind = "return"
         /\ r.value \in (-1)..L
         /\ (needle # <<>> /\ position # None /\ position[1] >= L) => r.value = -1

(* C9: append(c1, ..., cn) leaves the old chunks followed by c1 .. cn,     *)
(* head unchanged, and the content the old content followed by their bytes *)
C9_AppendPushesToTail ==
  last.op = "append" =>
    /\ chunks = last.pre.chunks \o last.args[1]
    /\ Len(chunks) = Len(last.pre.chunks) + Len(last.args[1])
    /\ head = last.pre.head
    /\ B = PreB \o Flatten(last.args[1])

\* two different chunks appended to a buffer that has been pulled from
C9_Witness ==
  /\ last.op = "append" /\ Len(last.args[1]) >= 2
  /\ last.args[1][1] # last.args[1][2]
  /\ head > 0

(* C10: slice(-k) is slice(max(L - k, 0)) for k > 0, and slice(s, -k) is   *)
(* slice(s, max(L - k, 0)).                                                *)
C10_SliceNegativeIndex ==
  last.op = "slice" =>
    \A k \in 1..(L + Beyond) :
      /\ slice(chunks, head, Some(-k), None).result
           = slice(chunks, head, Some(Max(L - k, 0)), None).result
      /\ \A s \in OptInts(L) :
           slice(chunks, head, s, Some(-k)).result
             = slice(chunks, head, s, Some(Max(L - k, 0))).result

\* slice(-k) with k > L returns all of a buffer that has been pulled from,
\* slice(-1) its last byte
C10_Witness ==
  /\ last.op = "slice" /\ head > 0 /\ L >= 2
  /\ slice(chunks, head, Some(-(L + 1)), None).result = Return(B)
  /\ slice(chunks, head, Some(-1), None).result = Return(<<B[L]>>)
(* C11: for a, b >= 0 with a + b <= length, the bytes of pull(a) followed   *)
(* by those of pull(b) are the bytes of one pull(a + b), and both ways     *)
(* leave the same content and length.                                      *)
C11_PullSplitting ==
  last.op = "pull" =>
    \A a \in 0..L : \A b \in 0..(L - a) :
      LET o1 == pull(chunks, head, a)
          o2 == pull(o1.chunks, o1.head, b)
          o == pull(chunks, head, a + b)
      IN /\ o1.result.kind = "return" /\ o2.result.kind = "return"
         /\ o.result = Return(o1.result.value \o o2.result.value)
         /\ Content(o2.chunks, o2.head) = Content(o.chunks, o.head)
         /\ length(o2.chunks, o2.head) = length(o.chunks, o.head)

\* after a pull: a first pull that ends inside the first chunk and a second
\* that runs over its end
C11_Witness ==
  /\ last.op = "pull" /\ last.result.kind = "return" /\ last.args[1] > 0
  /\ \E a \in 1..L : \E b \in 1..(L - a) :
       /\ pull(chunks, head, a).chunks = chunks
       /\ pull(chunks, head, a).head > head
       /\ Len(pull(chunks, head, a + b).chunks) < Len(chunks)
(* C12: for 0 <= x <= length, slice(0, x) and the pull(x) that follows it  *)
(* return equal bytes, and the pull leaves the length smaller by exactly   *)
(* x.                                                                      *)
C12_PullSliceEquivalence ==
  last.op = "slice" =>
    \A x \in 0..L :
      LET s == slice(chunks, head, Some(0), Some(x))
          o == pull(s.chunks, s.head, x)
      IN /\ s.result.kind = "return"
         /\ o.result = s.result
         /\ Len(Content(o.chunks, o.head)) = L - x

\* a buffer with some of its first chunk consumed, and an x that runs over
\* the end of that chunk
C12_Witness ==
  /\ last.op = "slice" /\ head > 0
  /\ \E x \in 2..L :
       /\ slice(chunks, head, Some(0), Some(x)).result = Return(Take(B, x))
       /\ Len(pull(chunks, head, x).chunks) < Len(chunks)
(* C13: for a non-empty needle with indexOf(needle) = i >= 0, searching    *)
(* again from i finds i, and searching from i + 1 returns the next         *)
(* occurrence after i, or -1 when there is none, also when i + 1 is the    *)
(* length of the buffer.                                                   *)
C13_IndexOfRestart ==
  last.op = "indexOf" =>
    \A needle \in Needles \ {<<>>} :
      LET r == indexOf(chunks, head, needle, None).result
      IN (r.kind = "return" /\ r.value >= 0) =>
           /\ indexOf(chunks, head, needle, Some(r.value)).result = r
           /\ indexOf(chunks, head, needle, Some(r.value + 1)).result
                = Return(FirstOccurrence(B, needle, r.value + 1))
(* C14: when indexOf(needle) = i >= 0, after pull(x) with 0 <= x <= i      *)
(* indexOf(needle) is i - x; after pull(x) with x > i it is the index of   *)
(* the first occurrence lying wholly in the bytes that remain, or -1.      *)
C14_IndexOfAfterPull ==
  last.op = "indexOf" =>
    \A needle \in Needles, x \in 0..L :
      LET r == indexOf(chunks, head, needle, None).result
          o == pull(chunks, head, x)
          after == indexOf(o.chunks, o.head, needle, None).result
      IN (r.kind = "return" /\ r.value >= 0) =>
           /\ x <= r.value => after = Return(r.value - x)
           /\ x > r.value => after = Return(FirstOccurrence(Drop(B, x), needle, 0))

\* part of the first chunk is consumed already and the needle is found past
\* the first chunk: a pull up to it leaves it at 0, a pull of one byte more
\* leaves no occurrence
C14_Witness ==
  /\ last.op = "indexOf" /\ head > 0 /\ Len(chunks) >= 2
  /\ \E needle \in Needles \ {<<>>} :
       LET i == indexOf(chunks, head, needle, None).result.value
       IN /\ i >= 1
          /\ LET o == pull(chunks, head, i)
             IN /\ Len(o.chunks) < Len(chunks)
                /\ indexOf(o.chunks, o.head, needle, None).result = Return(0)
          /\ i + 1 <= L
          /\ LET o == pull(chunks, head, i + 1)
             IN indexOf(o.chunks, o.head, needle, None).result = Return(-1)
(* C15: for an empty needle and p >= 0, indexOf([], p) is min(p, length);  *)
(* without p it is 0.                                                      *)
C15_EmptyNeedle ==
  last.op = "indexOf" =>
    /\ \A p \in 0..(L + Beyond) :
         indexOf(chunks, head, <<>>, Some(p)).result = Return(Min(p, L))
    /\ indexOf(chunks, head, <<>>, None).result = Return(0)

\* some bytes consumed, some left, and a p past the end answered with the
\* length
C15_Witness ==
  /\ last.op = "indexOf" /\ head > 0 /\ L >= 1
  /\ indexOf(chunks, head, <<>>, Some(L + Beyond)).result = Return(L)
  /\ indexOf(chunks, head, <<>>, Some(L - 1)).result = Return(L - 1)
(* C16: in every state reached by construction, append and pull, failing   *)
(* pulls included, head is at least 0, a positive head lies inside a       *)
(* first chunk that exists (head < its length), and head is never the      *)
(* length of a non-empty first chunk.                                      *)
C16_HeadInvariant ==
  /\ head >= 0
  /\ head > 0 => (chunks # <<>> /\ head < Len(chunks[1]))
  /\ (chunks # <<>> /\ Len(chunks[1]) > 0) => head # Len(chunks[1])

\* a pull that consumed a whole chunk and part of the next one
C16_Witness ==
  /\ last.op = "pull" /\ last.result.kind = "return"
  /\ Len(chunks) < Len(last.pre.chunks) /\ head > 0
(* C17: after any pull returns, the chunk sequence is empty or the first   *)
(* chunk holds at least one unconsumed byte (head < its length), zero-     *)
(* length chunks included.                                                 *)
C17_EagerPruning ==
  (last.op = "pull" /\ last.result.kind = "return") =>
    \/ chunks = <<>>
    \/ head < Len(chunks[1])

(* C17, amended: after any pull returns, no chunk with consumed bytes is   *)
(* left fully consumed at the front: the chunk sequence is empty, or head  *)
(* is inside the first chunk, or the first chunk is a zero-length chunk    *)
(* (head = 0), which stays stored until a later pull passes it.            *)
C17_NoConsumedChunkAtFront ==
  (last.op = "pull" /\ last.result.kind = "return") =>
    \/ chunks = <<>>
    \/ head < Len(chunks[1])
    \/ Len(chunks[1]) = 0 /\ head = 0

\* a pull of at least one byte that ends on a chunk boundary with a
\* zero-length chunk next, which stays first
C17_Witness ==
  /\ last.op = "pull" /\ last.result.kind = "return" /\ last.args[1] > 0
  /\ Len(chunks) < Len(last.pre.chunks)
  /\ chunks # <<>> /\ Len(chunks[1]) = 0
\* two outcomes agree: the same returned value, or an error in both
SameOutcome(r1, r2) ==
  /\ r1.kind = r2.kind
  /\ r1.kind = "return" => r1.value = r2.value

(* C18: buffers holding the same bytes give the same outcome for length,   *)
(* slice, pull and indexOf, whatever their chunk boundaries, zero-length   *)
(* chunks or head: every reachable buffer answers as the fresh buffer      *)
(* built from its content as one chunk does.                               *)
C18_ChunkingIndependence ==
  last.op \in {"slice", "indexOf"} =>
    LET fresh == << B >>
    IN /\ length(chunks, head) = length(fresh, 0)
       /\ \A start \in OptInts(L), end \in OptInts(L) :
            SameOutcome(slice(chunks, head, start, end).result,
                        slice(fresh, 0, start, end).result)
       /\ \A x \in (-Beyond)..(L + Beyond) :
            SameOutcome(pull(chunks, head, x).result, pull(fresh, 0, x).result)
       /\ \A needle \in Needles, position \in OptInts(L) :
            SameOutcome(indexOf(chunks, head, needle, position).result,
                        indexOf(fresh, 0, needle, position).result)
(* C19: the buffer shrinks only by pull and only from the front.  A pull   *)
(* that returns removes a prefix of the chunk sequence, possibly empty,    *)
(* every removed chunk lying wholly within the bytes pulled, and leaves    *)
(* the other chunks as they were, in order; a pull that throws, the        *)
(* constructor and append remove no chunk and change no stored chunk.      *)
C19_ShrinksOnlyFromFront ==
  /\ (last.op = "pull" /\ last.result.kind = "return") =>
       \E n \in 0..Len(last.pre.chunks) :
         /\ chunks = SubSeq(last.pre.chunks, n + 1, Len(last.pre.chunks))
         /\ n > 0 => SumLen(SubSeq(last.pre.chunks, 1, n)) - last.pre.head <= last.args[1]
  /\ (last.op = "pull" /\ last.result.kind = "throw") => Unchanged
  /\ last.op \in {"new", "append"} =>
       /\ Len(chunks) >= Len(last.pre.chunks)
       /\ SubSeq(chunks, 1, Len(last.pre.chunks)) = last.pre.chunks
       /\ head = last.pre.head
       /\ L >= PreL

\* a pull that removed some chunks and kept others, ending inside a chunk
C19_Witness ==
  /\ last.op = "pull" /\ last.result.kind = "return"
  /\ Len(chunks) < Len(last.pre.chunks) /\ Len(chunks) >= 2 /\ head > 0
  /\ chunks = SubSeq(last.pre.chunks, Len(last.pre.chunks) - Len(chunks) + 1,
                     Len(last.pre.chunks))
(* C20: a negative fromPosition counts as 0: for every needle, empty or    *)
(* not, and every p < 0, indexOf(needle, p) returns what indexOf(needle,   *)
(* 0) returns.                                                             *)
C20_NegativePositionIsZero ==
  last.op = "indexOf" =>
    \A needle \in Needles, p \in (-(L + Beyond))..(-1) :
      indexOf(chunks, head, needle, Some(p)).result
        = indexOf(chunks, head, needle, Some(0)).result
-----------------------------------------------------------------------------
(* indexOf pass by pass.  SearchEnter is the part of indexOf before its    *)
(* while (true) loop and SearchPass is one pass of the loop; last holds    *)
(* the needle, the loop's searchChunkNumber and searchPositionInChunk, the *)
(* number of passes made, and the outcome once the call has finished.      *)

\* one pass of while (true): where it goes next, or how the call ends
searchPass(cs, h, bytes, searchChunkNumber, searchPositionInChunk) ==
  IF searchChunkNumber >= Len(cs)
  THEN [done |-> TRUE, result |-> Throw("TypeError", ""),
        pos |-> Pos(searchChunkNumber, searchPositionInChunk)]
  ELSE
    LET currentChunk == cs[searchChunkNumber + 1]
        posFoundInChunk == TAIndexOf(currentChunk, At(bytes, 0), searchPositionInChunk)
    IN IF posFoundInChunk = -1
       THEN IF searchChunkNumber + 1 < Len(cs)
            THEN [done |-> FALSE, result |-> None, pos |-> Pos(searchChunkNumber + 1, 0)]
            ELSE [done |-> TRUE, result |-> Return(-1),
                  pos |-> Pos(searchChunkNumber + 1, 0)]
       ELSE IF ~compareBytes(cs, bytes, searchChunkNumber, posFoundInChunk)
       THEN [done |-> FALSE, result |-> None,
             pos |-> retryFrom(searchChunkNumber, posFoundInChunk)]
       ELSE [done |-> TRUE,
             result |-> Return(foundIndex(cs, h, searchChunkNumber, posFoundInChunk)),
             pos |-> Pos(searchChunkNumber, posFoundInChunk)]

Searching == last.op = "search" /\ ~last.done

\* indexOf(bytes, position) up to the loop
SearchEnter ==
  /\ ~Searching
  /\ \E bytes \in BytesUpTo(MaxNeedle), position \in OptInts(length(chunks, head)) :
       LET p == IF position = None THEN 0 ELSE position[1]
           s == IF p > 0 THEN _seek(chunks, Pos(0, head), p, None)
                ELSE [threw |-> None, pos |-> Pos(0, head), resultArray |-> None]
           early ==
             IF Len(bytes) = 0 THEN Some(Return(Min(p, length(chunks, head))))
             ELSE IF Len(bytes) > length(chunks, head) THEN Some(Return(-1))
             ELSE IF s.threw # None THEN Some(Throw(s.threw[1], ""))
             ELSE None
       IN last' = [op |-> "search", pre |-> Pre, bytes |-> bytes,
                   expected |-> indexOf(chunks, head, bytes, position).result,
                   pos |-> IF early = None THEN s.pos ELSE Pos(0, head),
                   passes |-> 0,
                   done |-> early # None,
                   result |-> IF early = None THEN None ELSE early[1]]
  /\ UNCHANGED <<chunks, head, supplied, nsupplied, pulled>>

\* one pass of the loop
SearchPass ==
  /\ Searching
  /\ LET n == searchPass(chunks, head, last.bytes, last.pos.chunkNumber, last.pos.headPos)
     IN last' = [last EXCEPT !.pos = n.pos, !.passes = @ + 1,
                             !.done = n.done, !.result = n.result]
  /\ UNCHANGED <<chunks, head, supplied, nsupplied, pulled>>

NextSearch == SearchEnter \/ SearchPass

SpecSearch == InitQuery /\ [][NextSearch]_vars /\ WF_vars(SearchPass)

\* the passes end as the loop of indexOf ends
SearchPassesAreIndexOf ==
  (last.op = "search" /\ last.done) => last.result = last.expected
\* a pass that does not end the call leaves the search at a later chunk, or
\* at a strictly later offset of the same chunk
SearchAdvances ==
  [][(Searching /\ Searching') =>
       \/ last'.pos.chunkNumber > last.pos.chunkNumber
       \/ /\ last'.pos.chunkNumber = last.pos.chunkNumber
          /\ last'.pos.headPos > last.pos.headPos]_vars

\* a call that has entered the loop ends
SearchEnds == Searching ~> (last.op = "search" /\ last.done)

\* a call that has ended has returned an index or -1
SearchReturnsIndex ==
  (last.op = "search" /\ last.done) =>
    /\ last.result.kind = "return"
    /\ last.result.value \in (-1)..L

(* C21: every call of indexOf on a reachable buffer terminates: each pass  *)
(* of the search loop moves to a later chunk or to a strictly later offset *)
(* in the same chunk, and after finitely many passes the call returns an   *)
(* index or -1.                                                            *)
C21_IndexOfTerminates == SearchAdvances /\ SearchEnds /\ []SearchReturnsIndex
-----------------------------------------------------------------------------
\* the positions of the stored chunks: a chunk number up to the number of
\* chunks and an offset up to the length of that chunk
Positions ==
  {Pos(c, off) : c \in 0..Len(chunks), off \in 0..MaxBytes}

\* the number of stored bytes before a position
BytesBefore(pos) == SumLen(SubSeq(chunks, 1, pos.chunkNumber)) + pos.headPos

\* normalized: an offset inside the chunk, or the end of the chunks
Normalized(pos) ==
  \/ pos.chunkNumber = Len(chunks) /\ pos.headPos = 0
  \/ pos.chunkNumber < Len(chunks) /\ pos.headPos < Len(chunks[pos.chunkNumber + 1])

\* normalized, or at the start of a zero-length chunk
AtByteOrChunkStart(pos) ==
  \/ Normalized(pos)
  \/ pos.chunkNumber < Len(chunks) /\ pos.headPos = 0

\* _seek from pos over numBytes bytes, with an array of numBytes + extra
\* zeros and without one, ends numBytes bytes on and has copied those bytes
SeeksExactly(pos, numBytes, extra) ==
  LET s == _seek(chunks, pos, numBytes, Some(Zeros(numBytes + extra)))
      t == _seek(chunks, pos, numBytes, None)
  IN /\ s.threw = None /\ t.threw = None
     /\ t.pos = s.pos /\ t.resultArray = None
     /\ BytesBefore(s.pos) = BytesBefore(pos) + numBytes
     /\ s.resultArray
          = Some(Range(Flatten(chunks), BytesBefore(pos), BytesBefore(pos) + numBytes)
                   \o Zeros(extra))

(* C22: from every normalized position and for every numBytes from 0 to    *)
(* the bytes stored from there on, _seek leaves the position exactly       *)
(* numBytes bytes on and normalized (offset < chunks[chunkIndex].length     *)
(* unless chunkIndex = chunks.length), and fills the first numBytes        *)
(* entries of a supplied array with the bytes passed, in order.            *)
C22_SeekContract ==
  last.op \in {"slice", "indexOf"} =>
    \A pos \in Positions :
      Normalized(pos) =>
        \A numBytes \in 0..(SumLen(chunks) - BytesBefore(pos)), extra \in 0..1 :
          /\ SeeksExactly(pos, numBytes, extra)
          /\ Normalized(_seek(chunks, pos, numBytes, None).pos)

(* C22, amended: from every position that is normalized or at the start of *)
(* a zero-length chunk, and for every numBytes from 0 to the bytes stored  *)
(* from there on, _seek leaves the position exactly numBytes bytes on, and *)
(* normalized or at the start of a zero-length chunk (it does not pass the *)
(* zero-length chunks that follow the last byte), and fills the first      *)
(* numBytes entries of a supplied array with the bytes passed, in order.   *)
C22_SeekContractAtChunkStart ==
  last.op \in {"slice", "indexOf"} =>
    \A pos \in Positions :
      AtByteOrChunkStart(pos) =>
        \A numBytes \in 0..(SumLen(chunks) - BytesBefore(pos)), extra \in 0..1 :
          /\ SeeksExactly(pos, numBytes, extra)
          /\ AtByteOrChunkStart(_seek(chunks, pos, numBytes, None).pos)

\* a seek from inside a chunk that ends on the boundary before a zero-length
\* chunk, and a seek from there that passes it
C22_Witness ==
  /\ last.op \in {"slice", "indexOf"}
  /\ \E pos \in Positions : \E numBytes \in 1..MaxBytes :
       LET s == _seek(chunks, pos, numBytes, Some(Zeros(numBytes)))
       IN /\ Normalized(pos) /\ pos.headPos > 0
          /\ s.threw = None
          /\ s.pos.chunkNumber > pos.chunkNumber
          /\ ~Normalized(s.pos) /\ AtByteOrChunkStart(s.pos)
          /\ _seek(chunks, s.pos, 1, Some(Zeros(1))).pos.chunkNumber
               > s.pos.chunkNumber + 1

====
